---- MODULE Spec2Model ----
(***************************************************************************)
(* Model of gcs_enhancer.go: GCSEnhancer.UploadImages prepares two upload  *)
(* tasks per image and hands them to GCSEnhancer.uploadMultiple, which     *)
(* starts one goroutine per task and collects the outcomes over the        *)
(* channels quit, errChan and linkChan.                                    *)
(*                                                                         *)
(* Strings are sequences of tokens.  The tokens form a prefix code, so two *)
(* strings are equal exactly when their token sequences are equal.         *)
(***************************************************************************)
EXTENDS Naturals, Sequences, FiniteSets

\* ------------------------------------------------------------------ bounds
\* Largest number of images handed to one UploadImages call.
MaxImages == 2
\* The wall clock runs over the seconds 0..MaxClock.
MaxClock == 1
\* Longest object name, in tokens, handed to a single Upload call.
MaxNameLen == 2

\* --------------------------------------------------------------- constants
\* const GCSPublicHost
GCSPublicHost == "storage.googleapis.com"
\* GCSEnhancer.bucketName, set by NewGCSEnhancer
bucketName == "bkt"
\* ImageSize constants
Original == "original"
Thumbnail == "thumbnail"

\* A nil *ObjectInfo
NilObj == [Size |-> "nil", Name |-> <<>>]
\* A nil error
NoErr == [kind |-> "nil", task |-> 0]
\* The error Upload returns for task i
UploadErr(i) == [kind |-> "upload", task |-> i]
\* The error an encoder returns while image k is prepared
EncodeErr(k) == [kind |-> "encode", task |-> k]
\* The zero SortedLinks
EmptyLinks == [Original |-> <<>>, Thumbnails |-> <<>>]

\* ------------------------------------------------------------------ inputs
\* Images.Name values a caller passes: a plain name, a name with an embedded
\* dot, the same base name in a directory, a base name that ends in
\* _thumbnail, and a name without a dot
ImageNames ==
    { <<"a", ".", "p">>,
      <<"a", ".", "b", ".", "p">>,
      <<"d", "/", "a", ".", "p">>,
      <<"a", "_", "thumbnail", ".", "p">>,
      <<"b">> }
\* The name of the images of the batches whose uploads are followed to the end
BatchNames == { <<"a", ".", "p">> }
\* Images.Mime values a caller passes
Mimes == {"image/png", "image/jpeg", "image/gif", "image/bmp"}
\* The []Images arguments of UploadImages with names out of a set
ImageLists(names) ==
    UNION { [1..n -> [Name : names, Mime : Mimes]] : n \in 0..MaxImages }

\* Tokens of the object names handed to a single Upload call: a letter, the
\* dot, the slash, and four characters that are not safe in a URL path
UploadTokens == {"a", ".", "/", " ", "?", "#", "%"}
\* The uploadFilename arguments of Upload
UploadNames ==
    UNION { [1..n -> UploadTokens] : n \in 1..MaxNameLen }

\* ---------------------------------------------------------- pure functions
\* strings.Split(s, sep) for a one-token separator
RECURSIVE Split(_, _)
Split(s, sep) ==
    IF \A i \in 1..Len(s) : s[i] # sep
    THEN <<s>>
    ELSE LET i == CHOOSE x \in 1..Len(s) :
                      s[x] = sep /\ \A j \in 1..(x - 1) : s[j] # sep
         IN  <<SubSeq(s, 1, i - 1)>> \o Split(SubSeq(s, i + 1, Len(s)), sep)

\* filepath.Base(path)
RECURSIVE StripTrailingSlashes(_)
StripTrailingSlashes(p) ==
    IF Len(p) > 0 /\ p[Len(p)] = "/"
    THEN StripTrailingSlashes(SubSeq(p, 1, Len(p) - 1))
    ELSE p

Base(path) ==
    IF path = <<>> THEN <<".">>
    ELSE LET p == StripTrailingSlashes(path)
             parts == Split(p, "/")
             last == parts[Len(parts)]
         IN  IF last = <<>> THEN <<"/">> ELSE last

\* time.Now().Format("20060102150405") at second t of the clock
TimeFactor(t) ==
    IF t = 0 THEN <<"20240101000000">>
    ELSE IF t = 1 THEN <<"20240101000001">>
    ELSE IF t = 2 THEN <<"20240101000002">>
    ELSE <<"20240101000003">>

\* AppendUnixTimeStampToFilename(filename), the clock reading t
AppendUnixTimeStampToFilename(filename, t) ==
    LET secs == Split(filename, ".")
    IN  secs[1] \o <<"_">> \o TimeFactor(t) \o <<".">> \o secs[Len(secs)]

\* appendThumbnailStamp(filename)
appendThumbnailStamp(filename) ==
    LET secs == Split(filename, ".")
    IN  secs[1] \o <<"_", "thumbnail">> \o <<".">> \o secs[Len(secs)]

\* A faulty EscapeToken: every token is written as it is.
EscapeTokenVerbatim(c) == c

\* url.URL.String's escaping of one token of the path: a space, a question
\* mark, a number sign and a percent sign are written as %XX; letters,
\* digits, ".", "_" and "/" are written as they are.
EscapeToken(c) ==
    IF c = " " THEN "%20"
    ELSE IF c = "?" THEN "%3F"
    ELSE IF c = "#" THEN "%23"
    ELSE IF c = "%" THEN "%25"
    ELSE c

\* url.URL.EscapedPath for a path without RawPath
EscapedPath(path) == [j \in DOMAIN path |-> EscapeToken(path[j])]

\* GCSEnhancer.ObjectLink(attr) for attr.Bucket = bucket, attr.Name = name:
\* url.URL{Scheme, Host, Path: bucket + "/" + name}.String(), which puts a
\* "/" between the host and a path that does not start with one
ObjectLink(bucket, name) ==
    <<"https", "://", GCSPublicHost, "/">> \o EscapedPath(<<bucket, "/">> \o name)

\* ------------------------------------------------------------------- state
VARIABLES
    imgs,          \* UploadImages: the images the loop over imgs has to visit
    now,           \* the wall clock, in seconds
    pc,            \* position of the goroutine that runs UploadImages
    origName,      \* UploadImages: origName of the current iteration
    thumbnailName, \* UploadImages: thumbnailName of the current iteration
    ois,           \* UploadImages: the task list ois (objs in uploadMultiple)
    quit,          \* uploadMultiple: the channel quit, "open" or "closed"
    errChan,       \* uploadMultiple: the buffer of errChan (capacity 1)
    linkChan,      \* uploadMultiple: the buffer of linkChan (capacity 1)
    sl,            \* uploadMultiple: the accumulator sl
    di,            \* uploadMultiple: tasks the dispatch loop has passed
    ci,            \* uploadMultiple: completed iterations of the collector
    got,           \* uploadMultiple: err of the collector's last receive
    wpc,           \* position of the worker goroutine of each task
    ret,           \* what UploadImages returned: [sl, err]
    panicked,      \* the panic that ended the process, "" while it runs
    upName,        \* Upload: the argument uploadFilename
    upPc,          \* Upload: position of a single Upload call
    upLog,         \* Upload: the storage calls made so far, with their outcome
    upRet          \* Upload: what the call returned: [link, err]

vars == <<imgs, now, pc, origName, thumbnailName, ois, quit, errChan,
          linkChan, sl, di, ci, got, wpc, ret, panicked,
          upName, upPc, upLog, upRet>>

\* The variables of a single Upload call
upVars == <<upName, upPc, upLog, upRet>>

\* The variables of UploadImages
uiVars == <<imgs, now, pc, origName, thumbnailName, ois, ret>>

\* The variables of uploadMultiple and its goroutines
umVars == <<quit, errChan, linkChan, sl, di, ci, got, wpc, panicked>>

NoRet == [sl |-> EmptyLinks, err |-> NoErr]

\* return "", err and the state before Upload has returned
NoLink == [link |-> <<>>, err |-> NoErr]

\* The state when UploadImages is called with one of the lists
InitWith(lists) ==
    /\ imgs \in lists
    /\ now = 0
    /\ pc = "prepare"
    /\ origName = <<>>
    /\ thumbnailName = <<>>
    /\ ois = <<>>
    /\ quit = "open"
    /\ errChan = <<>>
    /\ linkChan = <<>>
    /\ sl = EmptyLinks
    /\ di = 0
    /\ ci = 0
    /\ got = NoErr
    /\ wpc = <<>>
    /\ ret = NoRet
    /\ panicked = ""
    /\ upName = <<>>
    /\ upPc = "idle"
    /\ upLog = <<>>
    /\ upRet = NoLink

Init == InitWith(ImageLists(BatchNames))

InitPrep == InitWith(ImageLists(ImageNames))

Running == panicked = ""

\* ------------------------------------------------------------ UploadImages
\* Whether the mime switch has a case for the format (the case labels)
Supported(mime) == mime \in {"image/png", "image/jpeg", "image/gif"}

\* What the two Encode calls of a case can do: both succeed, or one fails.
\* No encoder is called for a format without a case.
EncodeOutcomes(mime) ==
    IF Supported(mime) THEN {"ok", "origFails", "thumbFails"} ELSE {"ok"}

\* origObj and thumbObj as the mime switch leaves them when no encoder fails
PreparedObjs(mime, oName, tName) ==
    IF mime \in {"image/png", "image/jpeg"}
    THEN << [Size |-> Original, Name |-> oName],
            [Size |-> Thumbnail, Name |-> tName] >>
    ELSE IF mime = "image/gif"
    THEN << [Size |-> Thumbnail, Name |-> oName], NilObj >>
    ELSE << NilObj, NilObj >>

\* The wall clock advances by a second while the images are prepared.
Tick ==
    /\ Running
    /\ UNCHANGED upVars
    /\ pc \in {"prepare", "stampThumb", "encode"}
    /\ now < MaxClock
    /\ now' = now + 1
    /\ UNCHANGED <<imgs, pc, origName, thumbnailName, ois, ret>>
    /\ UNCHANGED umVars

\* Head of the loop over imgs, with an image to visit:
\* origName := AppendUnixTimeStampToFilename(filepath.Base(img.Name))
StampOrig ==
    /\ Running
    /\ UNCHANGED upVars
    /\ pc = "prepare"
    /\ imgs # <<>>
    /\ origName' = AppendUnixTimeStampToFilename(Base(Head(imgs).Name), now)
    /\ pc' = "stampThumb"
    /\ UNCHANGED <<imgs, now, thumbnailName, ois, ret>>
    /\ UNCHANGED umVars

\* thumbnailName := AppendUnixTimeStampToFilename(
\*                      appendThumbnailStamp(filepath.Base(img.Name)))
StampThumb ==
    /\ Running
    /\ UNCHANGED upVars
    /\ pc = "stampThumb"
    /\ thumbnailName' =
           AppendUnixTimeStampToFilename(
               appendThumbnailStamp(Base(Head(imgs).Name)), now)
    /\ pc' = "encode"
    /\ UNCHANGED <<imgs, now, origName, ois, ret>>
    /\ UNCHANGED umVars

\* A faulty AfterEncode: the encoder's error does not end the call.
AfterEncodeIgnoresError(enc) == "prepare"

\* Where UploadImages goes after the Encode calls of a case:
\* if err != nil { return sl, err }
AfterEncode(enc) == IF enc = "ok" THEN "prepare" ELSE "returned"

\* The mime switch and the two appends; an encoder's error returns (sl, err)
\* at once.
EncodeAppend ==
    /\ Running
    /\ UNCHANGED upVars
    /\ pc = "encode"
    /\ \E enc \in EncodeOutcomes(Head(imgs).Mime) :
         IF enc = "ok"
         THEN /\ ois' = ois \o PreparedObjs(Head(imgs).Mime, origName,
                                            thumbnailName)
              /\ pc' = AfterEncode(enc)
              /\ UNCHANGED ret
         ELSE /\ pc' = AfterEncode(enc)
              /\ ret' = [sl |-> sl, err |-> EncodeErr((Len(ois) \div 2) + 1)]
              /\ UNCHANGED ois
    /\ imgs' = Tail(imgs)
    /\ origName' = <<>>
    /\ thumbnailName' = <<>>
    /\ UNCHANGED now
    /\ UNCHANGED umVars

\* The loop over imgs is over: sl, err = e.uploadMultiple(ctx, ois...).
\* With no task both loops of uploadMultiple are empty and it returns sl, nil.
CallUploadMultiple ==
    /\ Running
    /\ UNCHANGED upVars
    /\ pc = "prepare"
    /\ imgs = <<>>
    /\ wpc' = [i \in 1..Len(ois) |-> "idle"]
    /\ pc' = IF Len(ois) = 0 THEN "returned" ELSE "dispatch"
    /\ ret' = [sl |-> sl, err |-> NoErr]
    /\ UNCHANGED <<imgs, now, origName, thumbnailName, ois, quit, errChan,
                   linkChan, sl, di, ci, got, panicked>>

\* ---------------------------------------------------------- uploadMultiple
\* Dispatch loop, default case of the select: start the goroutine of the
\* next task.
DispatchSpawn ==
    /\ Running
    /\ UNCHANGED upVars
    /\ pc = "dispatch"
    /\ quit = "open"
    /\ di' = di + 1
    /\ wpc' = [wpc EXCEPT ![di + 1] = "spawned"]
    /\ pc' = IF di + 1 < Len(ois) THEN "dispatch" ELSE "recvErr"
    /\ UNCHANGED <<origName, thumbnailName, imgs, now, ois, quit, errChan, linkChan, sl, ci, got, ret,
                   panicked>>

\* A faulty DispatchBreak: the closed quit does not stop the loop, which
\* starts the goroutine of the task all the same.
DispatchBreakSpawnsAnyway ==
    /\ Running
    /\ UNCHANGED upVars
    /\ pc = "dispatch"
    /\ quit = "closed"
    /\ di' = di + 1
    /\ wpc' = [wpc EXCEPT ![di + 1] = "spawned"]
    /\ pc' = IF di + 1 < Len(ois) THEN "dispatch" ELSE "recvErr"
    /\ UNCHANGED <<origName, thumbnailName, imgs, now, ois, quit, errChan,
                   linkChan, sl, ci, got, ret, panicked>>

\* Dispatch loop, case <-quit: break L.
DispatchBreak ==
    /\ Running
    /\ UNCHANGED upVars
    /\ pc = "dispatch"
    /\ quit = "closed"
    /\ pc' = "recvErr"
    /\ UNCHANGED <<origName, thumbnailName, imgs, now, ois, quit, errChan, linkChan, sl, di, ci, got,
                   wpc, ret, panicked>>

\* Where the goroutine goes when e.Upload has returned: if err != nil
AfterUpload(ok) == IF ok THEN "sendNil" ELSE "sendErr"

\* The goroutine runs: it evaluates obj.Reader and obj.Name (a nil obj is a
\* nil pointer dereference, which ends the process) and calls e.Upload, which
\* returns a link or an error.  The goroutine does not look at quit.
WorkerUpload(i) ==
    /\ Running
    /\ UNCHANGED upVars
    /\ wpc[i] = "spawned"
    /\ IF ois[i] = NilObj
       THEN /\ panicked' = "nil pointer dereference"
            /\ UNCHANGED wpc
       ELSE /\ \E ok \in BOOLEAN : wpc' = [wpc EXCEPT ![i] = AfterUpload(ok)]
            /\ UNCHANGED panicked
    /\ UNCHANGED <<origName, thumbnailName, imgs, now, pc, ois, quit, errChan, linkChan, sl, di, ci,
                   got, ret>>

\* A faulty WorkerSendErr: the error is dropped instead of being sent.
WorkerSendErrDropped(i) ==
    /\ Running
    /\ UNCHANGED upVars
    /\ wpc[i] = "sendErr"
    /\ wpc' = [wpc EXCEPT ![i] = "closeQuit"]
    /\ UNCHANGED <<origName, thumbnailName, imgs, now, pc, ois, quit, errChan,
                   linkChan, sl, di, ci, got, ret, panicked>>

\* errChan <- err
WorkerSendErr(i) ==
    /\ Running
    /\ UNCHANGED upVars
    /\ wpc[i] = "sendErr"
    /\ Len(errChan) < 1
    /\ errChan' = Append(errChan, UploadErr(i))
    /\ wpc' = [wpc EXCEPT ![i] = "closeQuit"]
    /\ UNCHANGED <<origName, thumbnailName, imgs, now, pc, ois, quit, linkChan, sl, di, ci, got, ret,
                   panicked>>

\* close(quit); return.  Closing a closed channel panics.
WorkerCloseQuit(i) ==
    /\ Running
    /\ UNCHANGED upVars
    /\ wpc[i] = "closeQuit"
    /\ IF quit = "closed"
       THEN /\ panicked' = "close of closed channel"
            /\ UNCHANGED <<quit, wpc>>
       ELSE /\ quit' = "closed"
            /\ wpc' = [wpc EXCEPT ![i] = "exitErr"]
            /\ UNCHANGED panicked
    /\ UNCHANGED <<origName, thumbnailName, imgs, now, pc, ois, errChan, linkChan, sl, di, ci, got,
                   ret>>

\* errChan <- nil
WorkerSendNil(i) ==
    /\ Running
    /\ UNCHANGED upVars
    /\ wpc[i] = "sendNil"
    /\ Len(errChan) < 1
    /\ errChan' = Append(errChan, NoErr)
    /\ wpc' = [wpc EXCEPT ![i] = "sendLink"]
    /\ UNCHANGED <<origName, thumbnailName, imgs, now, pc, ois, quit, linkChan, sl, di, ci, got, ret,
                   panicked>>

\* A faulty LinkInfoOf: the goroutine reads the loop variable obj, which holds
\* the last task by the time it runs, instead of its own argument.
LinkInfoOfLoopVariable(i) ==
    [Size |-> ois[Len(ois)].Size,
     Link |-> ObjectLink(bucketName, ois[Len(ois)].Name)]

\* The LinkInfo the goroutine of task i sends
LinkInfoOf(i) ==
    [Size |-> ois[i].Size, Link |-> ObjectLink(bucketName, ois[i].Name)]

\* linkChan <- LinkInfo{...}; the goroutine ends.
WorkerSendLink(i) ==
    /\ Running
    /\ UNCHANGED upVars
    /\ wpc[i] = "sendLink"
    /\ Len(linkChan) < 1
    /\ linkChan' = Append(linkChan, LinkInfoOf(i))
    /\ wpc' = [wpc EXCEPT ![i] = "exitOk"]
    /\ UNCHANGED <<origName, thumbnailName, imgs, now, pc, ois, quit, errChan, sl, di, ci, got, ret,
                   panicked>>

\* A faulty AfterErrRecv: the collector goes on to the link of the iteration
\* whatever it received.
AfterErrRecvKeepsCollecting(err) == "recvLink"

\* Collector loop: where it goes after err := <-errChan
AfterErrRecv(err) == IF err # NoErr THEN "closeQuit" ELSE "recvLink"

\* Collector loop: err := <-errChan
CollectRecvErr ==
    /\ Running
    /\ UNCHANGED upVars
    /\ pc = "recvErr"
    /\ errChan # <<>>
    /\ got' = Head(errChan)
    /\ errChan' = Tail(errChan)
    /\ pc' = AfterErrRecv(Head(errChan))
    /\ UNCHANGED <<origName, thumbnailName, imgs, now, ois, quit, linkChan, sl, di, ci, wpc, ret,
                   panicked>>

\* A faulty ErrorReturn: the error handed back is that of the last task, not
\* the one received.
ErrorReturnOfLastTask(links, err) == [sl |-> links, err |-> UploadErr(Len(ois))]

\* Collector loop: what return sl, err hands back with an error
ErrorReturn(links, err) == [sl |-> links, err |-> err]

\* Collector loop: close(quit); return sl, err.
CollectCloseQuit ==
    /\ Running
    /\ UNCHANGED upVars
    /\ pc = "closeQuit"
    /\ IF quit = "closed"
       THEN /\ panicked' = "close of closed channel"
            /\ UNCHANGED <<quit, pc, ret>>
       ELSE /\ quit' = "closed"
            /\ pc' = "returned"
            /\ ret' = ErrorReturn(sl, got)
            /\ UNCHANGED panicked
    /\ UNCHANGED <<origName, thumbnailName, imgs, now, ois, errChan, linkChan, sl, di, ci, got, wpc>>

\* A faulty Merge: the if on Thumbnail is missing.
MergeOriginalsOnly(links, li) ==
    IF li.Size = Original
    THEN [links EXCEPT !.Original = Append(@, li.Link)]
    ELSE links

\* Collector loop: the two ifs on li.Size
Merge(links, li) ==
    LET withOrig ==
            IF li.Size = Original
            THEN [links EXCEPT !.Original = Append(@, li.Link)]
            ELSE links
    IN  IF li.Size = Thumbnail
        THEN [withOrig EXCEPT !.Thumbnails = Append(@, li.Link)]
        ELSE withOrig

\* Collector loop: li := <-linkChan and the appends; after the last
\* iteration, return sl, nil.
CollectRecvLink ==
    /\ Running
    /\ UNCHANGED upVars
    /\ pc = "recvLink"
    /\ linkChan # <<>>
    /\ sl' = Merge(sl, Head(linkChan))
    /\ linkChan' = Tail(linkChan)
    /\ ci' = ci + 1
    /\ IF ci + 1 < Len(ois)
       THEN /\ pc' = "recvErr"
            /\ UNCHANGED ret
       ELSE /\ pc' = "returned"
            /\ ret' = [sl |-> sl', err |-> NoErr]
    /\ UNCHANGED <<origName, thumbnailName, imgs, now, ois, quit, errChan, di, got, wpc, panicked>>

\* The whole call, prepared within one second
Next ==
    \/ StampOrig
    \/ StampThumb
    \/ EncodeAppend
    \/ CallUploadMultiple
    \/ DispatchSpawn
    \/ DispatchBreak
    \/ CollectRecvErr
    \/ CollectCloseQuit
    \/ CollectRecvLink
    \/ \E i \in DOMAIN wpc : WorkerUpload(i)
    \/ \E i \in DOMAIN wpc : WorkerSendErr(i)
    \/ \E i \in DOMAIN wpc : WorkerCloseQuit(i)
    \/ \E i \in DOMAIN wpc : WorkerSendNil(i)
    \/ \E i \in DOMAIN wpc : WorkerSendLink(i)

Spec == Init /\ [][Next]_vars

\* The preparation of the tasks alone, with the clock running
NextPrep ==
    \/ Tick
    \/ StampOrig
    \/ StampThumb
    \/ EncodeAppend

SpecPrep == InitPrep /\ [][NextPrep]_vars

\* ------------------------------------------------------------------ Upload
\* The error a storage call of Upload returns
StorageErr(step) == [kind |-> step, task |-> 0]

\* A faulty AfterStorageCall: the error of a storage call is not looked at.
AfterStorageCallIgnoresError(ok, next) == next

\* Where Upload goes after a storage call: if err != nil { return "", err }
AfterStorageCall(ok, next) == IF ok THEN next ELSE "returned"

\* What Upload has to return after a storage call
ReturnAfter(step, ok) ==
    IF ok THEN upRet ELSE [link |-> <<>>, err |-> StorageErr(step)]

\* io.Copy(objwriter, file)
UploadCopy ==
    /\ upPc = "copy"
    /\ \E ok \in BOOLEAN :
         /\ upLog' = Append(upLog, [op |-> "copy", ok |-> ok])
         /\ upPc' = AfterStorageCall(ok, "close")
         /\ upRet' = ReturnAfter("copy", ok)
    /\ UNCHANGED upName
    /\ UNCHANGED <<uiVars, umVars>>

\* objwriter.Close()
UploadClose ==
    /\ upPc = "close"
    /\ \E ok \in BOOLEAN :
         /\ upLog' = Append(upLog, [op |-> "close", ok |-> ok])
         /\ upPc' = AfterStorageCall(ok, "acl")
         /\ upRet' = ReturnAfter("close", ok)
    /\ UNCHANGED upName
    /\ UNCHANGED <<uiVars, umVars>>

\* object.ACL().Set(ctx, storage.AllUsers, storage.RoleReader)
UploadSetACL ==
    /\ upPc = "acl"
    /\ \E ok \in BOOLEAN :
         /\ upLog' = Append(upLog, [op |-> "acl", ok |-> ok])
         /\ upPc' = AfterStorageCall(ok, "attrs")
         /\ upRet' = ReturnAfter("acl", ok)
    /\ UNCHANGED upName
    /\ UNCHANGED <<uiVars, umVars>>

\* attr, err := object.Attrs(ctx)
UploadAttrs ==
    /\ upPc = "attrs"
    /\ \E ok \in BOOLEAN :
         /\ upLog' = Append(upLog, [op |-> "attrs", ok |-> ok])
         /\ upPc' = AfterStorageCall(ok, "link")
         /\ upRet' = ReturnAfter("attrs", ok)
    /\ UNCHANGED upName
    /\ UNCHANGED <<uiVars, umVars>>

\* return e.ObjectLink(attr), nil: the attributes name the bucket of the
\* enhancer and the object that was written.
UploadLink ==
    /\ upPc = "link"
    /\ upRet' = [link |-> ObjectLink(bucketName, upName), err |-> NoErr]
    /\ upPc' = "returned"
    /\ UNCHANGED <<upName, upLog>>
    /\ UNCHANGED <<uiVars, umVars>>

\* The state when Upload is called with one of the object names
InitUpload ==
    /\ imgs = <<>>
    /\ now = 0
    /\ pc = "idle"
    /\ origName = <<>>
    /\ thumbnailName = <<>>
    /\ ois = <<>>
    /\ quit = "open"
    /\ errChan = <<>>
    /\ linkChan = <<>>
    /\ sl = EmptyLinks
    /\ di = 0
    /\ ci = 0
    /\ got = NoErr
    /\ wpc = <<>>
    /\ ret = NoRet
    /\ panicked = ""
    /\ upName \in UploadNames
    /\ upPc = "copy"
    /\ upLog = <<>>
    /\ upRet = NoLink

\* A single Upload call
NextUpload ==
    \/ UploadCopy
    \/ UploadClose
    \/ UploadSetACL
    \/ UploadAttrs
    \/ UploadLink

SpecUpload == InitUpload /\ [][NextUpload]_vars

\* ------------------------------------------------------- derived notions
\* Tasks whose goroutine the dispatch loop has started
Dispatched == {i \in DOMAIN wpc : wpc[i] # "idle"}
\* Tasks whose goroutine has called e.Upload
Uploaded == {i \in DOMAIN wpc : wpc[i] \notin {"idle", "spawned"}}
\* Tasks whose e.Upload returned an error
FailedTasks == {i \in DOMAIN wpc : wpc[i] \in {"sendErr", "closeQuit", "exitErr"}}
\* Tasks whose e.Upload returned a link
SucceededTasks == {i \in DOMAIN wpc : wpc[i] \in {"sendNil", "sendLink", "exitOk"}}
\* uploadMultiple was called with at least one task, none of them nil
WellFormedBatch == wpc # <<>> /\ \A i \in DOMAIN ois : ois[i] # NilObj
\* UploadImages has returned what uploadMultiple returned
UploadMultipleReturned == wpc # <<>> /\ pc = "returned"
\* Number of places of a sequence that hold x
Count(seq, x) == Cardinality({j \in DOMAIN seq : seq[j] = x})
\* The link of task i
LinkOf(i) == ObjectLink(bucketName, ois[i].Name)
\* Number of tasks of a size class whose link is l
TasksWith(size, l) ==
    Cardinality({j \in DOMAIN ois : ois[j].Size = size /\ LinkOf(j) = l})
\* The loop over imgs met an image whose format has no case in the switch
\* (only then are origObj and thumbObj both nil)
UnsupportedPrepared ==
    \E i \in DOMAIN ois : i % 2 = 1 /\ ois[i] = NilObj

\* ------------------------------------------------------------------ claims
\* C1: for every batch with at least one task whose upload fails, in every
\* interleaving, the batch call returns an error and never a non-error
\* SortedLinks: the call never returns without error, and the process does
\* not end before the call has returned the error.
C1_FailingBatchReturnsError ==
    (WellFormedBatch /\ FailedTasks # {}) =>
        /\ pc = "returned" => ret.err # NoErr
        /\ panicked # "" => (pc = "returned" /\ ret.err # NoErr)

\* C2: when every task's upload succeeded, the call cannot get stuck before
\* it returns, and it returns without error a SortedLinks whose two lists
\* together have one link per dispatched task, the link of each Original
\* task in Original and the link of each Thumbnail task in Thumbnails.
C2_AllSucceedPartition ==
    (WellFormedBatch /\ SucceededTasks = DOMAIN ois) =>
        /\ pc # "returned" => ENABLED Next
        /\ pc = "returned" =>
             /\ ret.err = NoErr
             /\ Len(ret.sl.Original) + Len(ret.sl.Thumbnails)
                    = Cardinality(Dispatched)
             /\ \A i \in DOMAIN ois :
                  /\ Count(ret.sl.Original, LinkOf(i))
                         = TasksWith(Original, LinkOf(i))
                  /\ Count(ret.sl.Thumbnails, LinkOf(i))
                         = TasksWith(Thumbnail, LinkOf(i))

\* C2 witness: a batch of two images has returned, all four uploads having
\* succeeded.
C2_Witness ==
    /\ WellFormedBatch
    /\ Len(ois) = 4
    /\ SucceededTasks = DOMAIN ois
    /\ pc = "returned"
    /\ Len(ret.sl.Original) = 2
    /\ Len(ret.sl.Thumbnails) = 2

\* C3: whenever the call returns an error, the SortedLinks returned with it
\* holds no link.
C3_NoPartialResultWithError ==
    (pc = "returned" /\ ret.err # NoErr) => ret.sl = EmptyLinks

\* C4: quit is closed at most once: no run reaches the panic of closing a
\* closed channel.
C4_QuitClosedAtMostOnce == panicked # "close of closed channel"

\* C5: uploadMultiple never gets stuck: whenever no goroutine of a call on a
\* batch without nil task can take a step, the collector has returned its
\* one decision.
C5_CollectorReachesDecision ==
    (WellFormedBatch /\ ~ENABLED Next) => pc = "returned"

\* C6: no started worker is leaked: once uploadMultiple has returned, and
\* nothing receives from the channels any more, no started worker stands at
\* a send on a full channel.
C6_NoWorkerBlockedAfterReturn ==
    UploadMultipleReturned =>
        \A i \in DOMAIN wpc :
            /\ wpc[i] \in {"sendErr", "sendNil"} => Len(errChan) < 1
            /\ wpc[i] = "sendLink" => Len(linkChan) < 1

\* C7 as claimed: once any task's upload has failed, no link is added to
\* SortedLinks from that moment on.
C7_NoLinkAfterFailure == [][FailedTasks # {} => sl' = sl]_vars

\* C7 as amended: once the collector has received the error of a failed
\* task, no link of another task is added to SortedLinks from that moment on,
\* even if that other task's upload succeeds later.
C7_NoLinkAfterObservedFailure == [][got # NoErr => sl' = sl]_vars

\* C7 witness: the collector has received an error and returned, and the
\* link of another task, whose upload succeeded, waits in linkChan.
C7_Witness ==
    /\ got # NoErr
    /\ pc = "returned"
    /\ \E j \in DOMAIN wpc : wpc[j] = "exitOk" /\ linkChan = <<LinkInfoOf(j)>>

\* C8: if an image of the input declares a format other than png, jpeg or
\* gif, no worker is dispatched and no upload is called for any image.
C8_UnsupportedFormatNoUpload ==
    UnsupportedPrepared => (Dispatched = {} /\ Uploaded = {})

\* C9: for every image of a supported format the loop appends exactly two
\* tasks, the first Original with the original's name and the second
\* Thumbnail with the thumbnail's name.
C9_TwoLabeledTasksPerImage ==
    [][(pc = "encode" /\ pc' = "prepare" /\ Supported(Head(imgs).Mime)) =>
          ois' = ois \o << [Size |-> Original, Name |-> origName],
                           [Size |-> Thumbnail, Name |-> thumbnailName] >>]_vars

\* C10: within one batch no two tasks of different images have the same
\* destination name.  (A name ends in its time stamp and extension, so two
\* equal names were stamped within the same second.)
C10_NamesDistinct ==
    \A i, j \in DOMAIN ois :
        (((i - 1) \div 2) # ((j - 1) \div 2)
            /\ ois[i] # NilObj /\ ois[j] # NilObj)
        => ois[i].Name # ois[j].Name

\* C11 as claimed: the link Upload returns is https://<host>/<bucket>/<name>
\* with the bucket and the object name verbatim.
C11_LinkVerbatim ==
    (upPc = "returned" /\ upRet.err = NoErr) =>
        upRet.link = <<"https", "://", GCSPublicHost, "/", bucketName, "/">>
                         \o upName

\* C11 as amended: the link is https://<host>/ followed by one token for each
\* token of <bucket>/<name>, in order: a token that is safe in a URL path is
\* written verbatim, a space, question mark, number sign or percent sign is
\* written as its %XX code, so the link holds no query and no fragment.
C11_LinkPathEscaped ==
    (upPc = "returned" /\ upRet.err = NoErr) =>
        LET path == <<bucketName, "/">> \o upName
            link == upRet.link
            code == [c \in {" ", "?", "#", "%"} |->
                        IF c = " " THEN "%20"
                        ELSE IF c = "?" THEN "%3F"
                        ELSE IF c = "#" THEN "%23" ELSE "%25"]
        IN  /\ Len(link) = 4 + Len(path)
            /\ SubSeq(link, 1, 4) = <<"https", "://", GCSPublicHost, "/">>
            /\ \A j \in DOMAIN path :
                 link[4 + j] = IF path[j] \in DOMAIN code
                               THEN code[path[j]]
                               ELSE path[j]
            /\ \A j \in DOMAIN link : link[j] \notin {"?", "#", " "}

\* C11 witness: Upload has returned the link of an object name that holds a
\* space and a token that is safe in a path.
C11_Witness ==
    /\ upPc = "returned"
    /\ upRet.err = NoErr
    /\ upRet.link # <<>>
    /\ \E j, k \in DOMAIN upName : upName[j] = " " /\ upName[k] = "a"

\* C12: the name AppendUnixTimeStampToFilename returns, split at its last
\* ".", has the extension of the file name it was given, split at its last
\* "." (a name without a dot has no extension).
C12_StampKeepsExtension ==
    LET HasDot(s) == \E j \in DOMAIN s : s[j] = "."
        Ext(s) == IF HasDot(s)
                  THEN LET secs == Split(s, ".") IN secs[Len(secs)]
                  ELSE <<>>
    IN  pc = "stampThumb" => Ext(origName) = Ext(Base(Head(imgs).Name))

\* C18: the storage calls of Upload are made in the order copy, close, set
\* ACL, read attributes; a failed call is the last one made and Upload
\* returns its error with an empty link; a link is returned only when all the
\* calls have succeeded.
C18_UploadStepsInOrder ==
    LET order == <<"copy", "close", "acl", "attrs">>
    IN  /\ Len(upLog) <= Len(order)
        /\ \A j \in DOMAIN upLog :
             /\ upLog[j].op = order[j]
             /\ ~upLog[j].ok =>
                  /\ j = Len(upLog)
                  /\ upPc = "returned"
                  /\ upRet = [link |-> <<>>, err |-> StorageErr(order[j])]
        /\ upRet.link # <<>> =>
             /\ upPc = "returned"
             /\ upRet.err = NoErr
             /\ Len(upLog) = Len(order)
             /\ \A j \in DOMAIN upLog : upLog[j].ok

\* C18 witness: the write succeeded, setting the ACL failed, and Upload has
\* returned that error without reading the attributes.
C18_Witness ==
    /\ upPc = "returned"
    /\ Len(upLog) = 3
    /\ upRet = [link |-> <<>>, err |-> StorageErr("acl")]

\* C13: when several tasks fail, the error uploadMultiple returns is the
\* first non-nil error the collector received (it receives nothing after
\* it), and it is the error of a task whose upload failed.
C13_FirstReceivedErrorReturned ==
    /\ got # NoErr => pc \in {"closeQuit", "returned"}
    /\ (UploadMultipleReturned /\ ret.err # NoErr) =>
          /\ ret.err = got
          /\ \E i \in FailedTasks : ret.err = UploadErr(i)

\* C13 witness: uploadMultiple has returned an error while the uploads of
\* two tasks had failed.
C13_Witness ==
    /\ UploadMultipleReturned
    /\ ret.err # NoErr
    /\ Cardinality(FailedTasks) >= 2

\* C14: after the collector has received a non-nil error it takes nothing
\* from linkChan and appends nothing to sl: the merged links stay as they
\* were, up to the return, which hands back those links.
C14_NoMergeAfterObservedError ==
    [][got # NoErr =>
          /\ sl' = sl
          /\ ci' = ci
          /\ Len(linkChan') >= Len(linkChan)
          /\ pc' = "returned" => ret'.sl = sl]_vars

\* C14 witness: the collector merged a link, then received an error and
\* returned, and the link of a further task waits in linkChan.
C14_Witness ==
    /\ got # NoErr
    /\ pc = "returned"
    /\ ret.sl # EmptyLinks
    /\ linkChan # <<>>

\* C15: once quit is closed, no worker starts its upload.
C15_NoUploadAfterCancel == [][quit = "closed" => Uploaded' \subseteq Uploaded]_vars

\* C16: when the dispatch loop stands at its select with quit closed, the
\* next step starts no worker; once the loop is left no worker is started;
\* and the dispatched tasks are always a prefix of the task list.
C16_DispatchedIsPrefix ==
    [][/\ (pc = "dispatch" /\ quit = "closed") => Dispatched' = Dispatched
       /\ pc \in {"recvErr", "recvLink", "closeQuit", "returned"}
              => Dispatched' = Dispatched
       /\ \E n \in 0..Len(ois') : Dispatched' = 1..n]_vars

\* C16 witness: the dispatch loop was left with tasks it had not reached.
C16_Witness ==
    /\ pc = "recvErr"
    /\ di >= 1
    /\ di < Len(ois)
    /\ Dispatched = 1..di

\* C17: when an encoder fails, UploadImages has returned that error, with
\* an empty SortedLinks; no worker was dispatched, no upload called, and
\* nothing runs afterwards (the remaining images are not prepared).
C17_EncodeErrorReturnsAtOnce ==
    ret.err.kind = "encode" =>
        /\ pc = "returned"
        /\ ret.err = EncodeErr((Len(ois) \div 2) + 1)
        /\ ret.sl = EmptyLinks
        /\ wpc = <<>>
        /\ Dispatched = {}
        /\ Uploaded = {}
        /\ ~ENABLED Next

\* C17 witness: the first image was encoded, the second image's encoder
\* failed, and UploadImages has returned.
C17_Witness ==
    /\ pc = "returned"
    /\ ret.err = EncodeErr(2)
    /\ Len(ois) = 2

\* C19: whenever quit is closed and the collector has not taken its first
\* outcome, errChan holds a non-nil error; and when the dispatch loop was
\* left early, the collector's first receive is that error: it never waits
\* on an empty errChan or on linkChan.
C19_ClosedQuitMeansBufferedError ==
    /\ (quit = "closed" /\ pc \in {"dispatch", "recvErr"} /\ ci = 0) =>
          (Len(errChan) = 1 /\ errChan[1] # NoErr)
    /\ (wpc # <<>> /\ di < Len(ois)
            /\ pc \in {"recvErr", "recvLink", "closeQuit", "returned"}) =>
          /\ ci = 0
          /\ \/ pc = "recvErr" /\ errChan # <<>> /\ Head(errChan) # NoErr
             \/ pc = "closeQuit" /\ got # NoErr

\* C19 witness: the dispatch loop stands at its select with quit closed.
C19_Witness ==
    /\ pc = "dispatch"
    /\ quit = "closed"
    /\ di >= 1

\* C20: while no upload has failed, every link a worker has sent is in
\* linkChan or merged into sl exactly once; the collector's receive on
\* linkChan is served (a link waits or a worker is about to send one); and
\* at the return every task's link has been sent.
C20_EachLinkMergedOnce ==
    (WellFormedBatch /\ FailedTasks = {}) =>
        /\ \A i \in DOMAIN ois :
             Count(sl.Original \o sl.Thumbnails, LinkOf(i))
               + Count([j \in DOMAIN linkChan |-> linkChan[j].Link], LinkOf(i))
             = Cardinality({j \in DOMAIN ois :
                              wpc[j] = "exitOk" /\ LinkOf(j) = LinkOf(i)})
        /\ pc = "recvLink" =>
             (linkChan # <<>> \/ \E i \in DOMAIN wpc : wpc[i] = "sendLink")
        /\ pc = "returned" =>
             (linkChan = <<>> /\ \A i \in DOMAIN wpc : wpc[i] = "exitOk")

\* C20 witness: the collector has received one nil and waits for the link;
\* two workers with different links have each sent their nil and not yet
\* their link.  Either can send its link next, and only one of them sent the
\* nil that was received.
C20_Witness ==
    /\ WellFormedBatch
    /\ FailedTasks = {}
    /\ pc = "recvLink"
    /\ ci = 0
    /\ linkChan = <<>>
    /\ \E a, b \in DOMAIN wpc :
         /\ wpc[a] = "sendLink"
         /\ wpc[b] = "sendLink"
         /\ LinkOf(a) # LinkOf(b)

\* The goroutines of one call under a fair scheduler: a step that stays
\* possible is eventually taken.
SpecFair == Init /\ [][Next]_vars /\ WF_vars(Next)

\* C20, the receive is served: under SpecFair a collector waiting on linkChan
\* leaves that receive, as long as no upload has failed.
C20_ReceiveEventuallyServed ==
    (WellFormedBatch /\ pc = "recvLink") ~> (pc # "recvLink" \/ FailedTasks # {})
====
